---- MODULE Spec2Model ----
\* Model of pypdl/utls.py: the segment planner (create_segment_table), the
\* segment workers (Multidown.worker over Basicdown.download), the combiner
\* (combine_files) and the coordinator that drives one download attempt.
EXTENDS Integers, Naturals, Sequences, FiniteSets, TLC

\* ---------------------------------------------------------------------------
\* Program constants (utls.py:12-15)
MEGABYTE == 1048576

\* Width of the significand of a Python float (IEEE-754 binary64).
MANT_DIG == 53

\* ---------------------------------------------------------------------------
\* Binary64 arithmetic as Python performs it.  A positive float is a record
\* [mant, exp] of value mant * 2^exp with 2^52 <= mant < 2^53.  Significands
\* and exact intermediate values exceed the integer range of the checker, so
\* they are kept as sequences of base-1024 digits, most significant first;
\* mant has 6 digits.

\* the four digits of an integer 0 <= x < 2^31
Digits4(x) ==
    <<x \div 1073741824, (x \div 1048576) % 1024, (x \div 1024) % 1024, x % 1024>>

\* number of bits of the non-zero number d
BitLength(d) ==
    LET j == CHOOSE i \in 1..Len(d) : d[i] # 0 /\ \A h \in 1..(i - 1) : d[h] = 0
        w == CHOOSE b \in 1..10 : 2 ^ (b - 1) <= d[j] /\ d[j] < 2 ^ b
    IN  10 * (Len(d) - j) + w

\* bit b of d, bit 0 the least significant
BitAt(d, b) == (d[Len(d) - (b \div 10)] \div (2 ^ (b % 10))) % 2

\* whether d mod 2^t is non-zero
LowBitsNonZero(d, t) ==
    \/ \E i \in (Len(d) - (t \div 10) + 1)..Len(d) : d[i] # 0
    \/ d[Len(d) - (t \div 10)] % (2 ^ (t % 10)) # 0

\* the six low digits of floor(d / 2^t)
ShiftRight(d, t) ==
    LET s == t % 10
        o == Len(d) - (t \div 10) - 6
        D(i) == IF i >= 1 THEN d[i] ELSE 0
    IN  SubSeq([i \in 1..6 |->
                   (D(o + i - 1) % (2 ^ s)) * (2 ^ (10 - s)) + D(o + i) \div (2 ^ s)],
               1, 6)

\* d + 1, for d below 1024^Len(d) - 1
IncrDigits(d) ==
    LET z == CHOOSE i \in 1..Len(d) :
                 d[i] # 1023 /\ \A j \in (i + 1)..Len(d) : d[j] = 1023
    IN  SubSeq([i \in 1..Len(d) |->
                   IF i < z THEN d[i] ELSE IF i = z THEN d[i] + 1 ELSE 0],
               1, Len(d))

\* digits d[1..i] times k, plus carry (k < 2^20)
RECURSIVE MulDigits(_, _, _, _)
MulDigits(d, i, k, carry) ==
    IF i = 0 THEN Digits4(carry)
    ELSE LET v == d[i] * k + carry
         IN  Append(MulDigits(d, i - 1, k, v \div 1024), v % 1024)

\* long division of the digits d[i..] by n (n <= 2^20), r the remainder so far
RECURSIVE DivDigits(_, _, _, _)
DivDigits(d, i, r, n) ==
    IF i > Len(d) THEN [quot |-> <<>>, rem |-> r]
    ELSE LET v    == r * 1024 + d[i]
             rest == DivDigits(d, i + 1, v % n, n)
         IN  [quot |-> <<v \div n>> \o rest.quot, rem |-> rest.rem]

\* Round the exact value d * 2^exp (d >= 2^52) to the nearest float, ties to
\* even; t is the number of low bits of d that do not fit, sticky says whether
\* non-zero digits follow the ones in d.
RoundAt(d, exp, sticky, t) ==
    LET kept == ShiftRight(d, t)
        up   == /\ t > 0
                /\ BitAt(d, t - 1) = 1
                /\ \/ sticky
                   \/ LowBitsNonZero(d, t - 1)
                   \/ kept[6] % 2 = 1
        inc  == IncrDigits(kept)
    IN  IF ~up THEN [mant |-> kept, exp |-> exp + t]
        ELSE IF inc[1] = 8
             THEN [mant |-> <<4, 0, 0, 0, 0, 0>>, exp |-> exp + t + 1]
             ELSE [mant |-> inc, exp |-> exp + t]

RoundNearestEven(d, exp, sticky) ==
    RoundAt(d, exp, sticky, BitLength(d) - MANT_DIG)

\* int / int true division (1 <= a < 2^31, 1 <= n <= 2^20): the correctly
\* rounded quotient; the dividend is a * 2^80
TrueDiv(a, n) ==
    CHOOSE x \in {RoundNearestEven(d.quot, -80, d.rem # 0) :
                     d \in {DivDigits(Digits4(a) \o <<0, 0, 0, 0, 0, 0, 0, 0>>,
                                      1, 0, n)}} : TRUE

\* float * int (1 <= k < 2^20): the correctly rounded product
FloatMul(x, k) ==
    RoundNearestEven(MulDigits(x.mant, 6, k, 0), x.exp, FALSE)

\* int(float): truncation toward zero, for values below 2^31
FloatToInt(x) ==
    IF MANT_DIG + x.exp <= 0 THEN 0
    ELSE LET d == ShiftRight(x.mant, -x.exp)
         IN  ((d[3] * 1024 + d[4]) * 1024 + d[5]) * 1024 + d[6]

\* ---------------------------------------------------------------------------
\* Bounds of the model

\* largest resource (bytes) of the download state machine
MaxSize == 3
\* largest requested segment count of the download state machine
MaxSegments == 2
\* download attempts on the same destination path
MaxAttempts == 2
\* planner inputs: small sizes 1..MaxPlanSize, sizes 50 MB .. 50 MB + MaxPlanDelta
MaxPlanSize == 6
MaxPlanDelta == 10
\* planner inputs: requested segment counts 1..MaxRequested
MaxRequested == 11

Urls == {"u1", "u2"}
\* the etag argument is a string or False
EtagFalse == "False"
Etags == {EtagFalse, "e1", "e2"}
Truthy(etag) == etag # EtagFalse

EmptyFcn == [w \in {} |-> 0]
Min(a, b) == IF a <= b THEN a ELSE b

\* ---------------------------------------------------------------------------
\* The sidecar <file_path>.json: absent, not parseable as JSON, or a JSON
\* object holding some of the keys url, etag, segments.
Absent == [kind |-> "absent", keys |-> {}, url |-> "", etag |-> "", segments |-> 0]
Garbage == [kind |-> "garbage", keys |-> {}, url |-> "", etag |-> "", segments |-> 0]
AllKeys == {"url", "etag", "segments"}
Json(url, etag, segments) ==
    [kind |-> "json", keys |-> AllKeys, url |-> url, etag |-> etag,
     segments |-> segments]
\* a JSON object that lacks one key
JsonWithout(key, url, etag, segments) ==
    [kind |-> "json", keys |-> AllKeys \ {key},
     url |-> IF key = "url" THEN "" ELSE url,
     etag |-> IF key = "etag" THEN "" ELSE etag,
     segments |-> IF key = "segments" THEN 0 ELSE segments]

\* ---------------------------------------------------------------------------
\* create_segment_table (utls.py:51-91)

\* utls.py:47-48
to_mb(size_in_bytes) == TrueDiv(size_in_bytes, MEGABYTE)

\* float < int, for a non-negative float and an integer
FloatLess(x, k) == FloatToInt(x) < k

\* mutant of ClampSegments: the size test is <= 50 MB
ClampSegments_AtMost(segments, size) ==
    IF segments > 5 /\ FloatToInt(to_mb(size)) <= 50 THEN 5 ELSE segments

\* utls.py:57
ClampSegments(segments, size) ==
    IF segments > 5 /\ FloatLess(to_mb(size), 50) THEN 5 ELSE segments

\* mutant of ResumeSegments: a sidecar with the request's url is reused
\* whatever its etag
ResumeSegments_UrlOnly(progress, url, etag, segments) ==
    IF /\ progress.kind = "json"
       /\ Truthy(etag)
       /\ "url" \in progress.keys /\ progress.url = url
       /\ "segments" \in progress.keys
    THEN progress.segments
    ELSE segments

\* mutant of ResumeSegments: the etag is compared without testing its truth
ResumeSegments_AnyEtag(progress, url, etag, segments) ==
    IF /\ progress.kind = "json"
       /\ "url" \in progress.keys /\ progress.url = url
       /\ "etag" \in progress.keys /\ progress.etag = etag
       /\ "segments" \in progress.keys
    THEN progress.segments
    ELSE segments

\* utls.py:60-65: the try block; any exception leaves segments unchanged
ResumeSegments(progress, url, etag, segments) ==
    IF /\ progress.kind = "json"
       /\ Truthy(etag)
       /\ "url" \in progress.keys /\ progress.url = url
       /\ "etag" \in progress.keys /\ progress.etag = etag
       /\ "segments" \in progress.keys
    THEN progress.segments
    ELSE segments

\* mutant of SegmentEntry: end is decremented for the last segment too
SegmentEntry_DecrementAll(partition_size, segments, segment) ==
    LET start == IF segment = 0 THEN 0
                 ELSE FloatToInt(FloatMul(partition_size, segment))
        end   == FloatToInt(FloatMul(partition_size, segment + 1))
    IN  [start |-> start, end |-> end - 1, segment_size |-> end - start]

\* utls.py:75-89: one entry of the table; segment_path is <file_path>.<segment>
SegmentEntry(partition_size, segments, segment) ==
    LET start == IF segment = 0 THEN 0
                 ELSE FloatToInt(FloatMul(partition_size, segment))
        end   == FloatToInt(FloatMul(partition_size, segment + 1))
    IN  [start |-> start,
         end |-> IF segment # segments - 1 THEN end - 1 ELSE end,
         segment_size |-> end - start]

\* utls.py:74-91
SegmentTable(url, segments, size) ==
    CHOOSE dic \in
        {[url |-> url, segments |-> segments,
          seg |-> [i \in 0..(segments - 1) |->
                      SegmentEntry(partition_size, segments, i)]] :
            partition_size \in {TrueDiv(size, segments)}} : TRUE

\* The whole function: what it writes to the sidecar and what it returns.
create_segment_table(url, progress, segments, size, etag) ==
    LET resolved == ResumeSegments(progress, url, etag,
                                   ClampSegments(segments, size))
    IN  [progress_file |-> Json(url, etag, resolved),
         dic |-> SegmentTable(url, resolved, size)]

\* ---------------------------------------------------------------------------
\* File contents.  The byte at offset j of the resource at url is written
\* (j, url), and the bytes of a file are kept as the sequence of its maximal
\* runs <<lo, hi, url>> of consecutive offsets of one resource: two files hold
\* the same bytes exactly if their runs are equal.
Bytes(url, first, n) ==
    IF n = 0 THEN <<>> ELSE << <<first, first + n - 1, url>> >>
Resource(url, sz) == Bytes(url, 0, sz)

RECURSIVE FileLen(_)
FileLen(f) ==
    IF f = <<>> THEN 0 ELSE (f[1][2] - f[1][1] + 1) + FileLen(Tail(f))

\* the bytes of f followed by the bytes of g
Concat(f, g) ==
    IF f = <<>> THEN g
    ELSE IF g = <<>> THEN f
    ELSE IF f[Len(f)][2] + 1 = g[1][1] /\ f[Len(f)][3] = g[1][3]
         THEN SubSeq(f, 1, Len(f) - 1)
                  \o << <<f[Len(f)][1], g[1][2], g[1][3]>> >> \o Tail(g)
         ELSE f \o g

\* ---------------------------------------------------------------------------
\* combine_files (utls.py:94-111).  files maps the index of every existing
\* segment file to its bytes.  Opening a missing segment file raises; the
\* destination then holds what was written so far.
RECURSIVE CombineFrom(_, _, _, _)
CombineFrom(segment, segments, data, files) ==
    IF segment = segments
    THEN [raised |-> FALSE, dest |-> data, files |-> files]
    ELSE IF segment \notin DOMAIN files
    THEN [raised |-> TRUE, dest |-> data, files |-> files]
    ELSE CombineFrom(segment + 1, segments, Concat(data, files[segment]),
                     [i \in DOMAIN files \ {segment} |-> files[i]])

\* mutant of combine_files: the sidecar is not unlinked
combine_files_KeepSidecar(files, progress, segments) ==
    LET c == CombineFrom(0, segments, <<>>, files)
    IN  [raised |-> c.raised, dest |-> c.dest, files |-> c.files,
         progress_file |-> progress]

combine_files(files, progress, segments) ==
    LET c == CombineFrom(0, segments, <<>>, files)
    IN  [raised |-> c.raised \/ progress.kind = "absent",
         dest |-> c.dest, files |-> c.files,
         progress_file |-> IF c.raised THEN progress ELSE Absent]

\* ---------------------------------------------------------------------------
\* The transport: a streaming GET with a Range header on a resource of
\* `size` bytes at url.  The server serves the inclusive range clipped to the
\* resource.
Response(url, first, last, size) ==
    [url |-> url, next |-> first, last |-> Min(last, size - 1)]
Remaining(r) == IF r.last >= r.next THEN r.last - r.next + 1 ELSE 0

\* ---------------------------------------------------------------------------
\* State
VARIABLES
    size,             \* content length of the resource
    progress_file,    \* the sidecar <file_path>.json
    segment_files,    \* index of each existing file <file_path>.<i> -> bytes
    dest,             \* the destination file: [exists, data]
    status,           \* coordinator state of the current attempt
    attempt,          \* number of attempts started
    request,          \* arguments of the current attempt: url, etag, segments
    progress,         \* what create_segment_table read from the sidecar
    segement_table,   \* the table the workers of this attempt were given
    interrupt,        \* the shared threading.Event
    pc,               \* per worker: position in Multidown.worker
    curr,             \* per worker: Basicdown.curr
    completed,        \* per worker: Basicdown.completed
    downloaded_size,  \* per worker: st_size seen by resume detection, -1 if none
    ranges,           \* per worker: Range headers of the GETs it issued
    stream,           \* per worker: what the open response still has to deliver
    extra,            \* per worker: chunks written since interrupt was set
    left,             \* per worker: how Basicdown.download was left
    mode,             \* the attempt's download mode: "ab" Multidown, "wb" Simpledown
    fresh,            \* the attempt started without segment files and sidecar
    prev              \* how the previous attempt on this path ended: its
                      \* status, request, table and the segment files it left

vars == <<size, progress_file, segment_files, dest, status, attempt, request,
          progress, segement_table, interrupt, pc, curr, completed,
          downloaded_size, ranges, stream, extra, left, mode, fresh, prev>>

disk == <<progress_file, segment_files, dest>>
coordinator == <<status, attempt, request, progress, segement_table, mode,
                 fresh, prev>>

Workers == DOMAIN pc
Entry(w) == segement_table.seg[w]
NoFile == [exists |-> FALSE, data |-> <<>>]
NoResponse == [url |-> "", next |-> 0, last |-> -1]
NoTable == [url |-> "", segments |-> 0, seg |-> EmptyFcn]
NoPrev == [status |-> "Idle", url |-> "", etag |-> "", dic |-> NoTable,
           files |-> EmptyFcn]

InitWith(sz, sidecar) ==
    /\ size = sz
    /\ progress_file = sidecar
    /\ segment_files = EmptyFcn
    /\ dest = NoFile
    /\ status = "Idle"
    /\ attempt = 0
    /\ request = [url |-> "", etag |-> "", segments |-> 0]
    /\ progress = Absent
    /\ segement_table = NoTable
    /\ interrupt = FALSE
    /\ pc = EmptyFcn
    /\ curr = EmptyFcn
    /\ completed = EmptyFcn
    /\ downloaded_size = EmptyFcn
    /\ ranges = EmptyFcn
    /\ stream = EmptyFcn
    /\ extra = EmptyFcn
    /\ left = EmptyFcn
    /\ mode = "ab"
    /\ fresh = TRUE
    /\ prev = NoPrev

\* A clean destination directory and a resource of 1..MaxSize bytes.
Init == \E sz \in 1..MaxSize : InitWith(sz, Absent)

\* ---------------------------------------------------------------------------
\* Coordinator: Planning -> Running.  A new attempt starts once the previous
\* one has ended and its workers have returned; it calls the planner, makes a
\* new Event and one Multidown per table entry (Basicdown.__init__,
\* utls.py:119-124) and starts their worker methods.
StartAttempt(url, etag, segments) ==
    /\ status \in {"Idle", "Aborted", "Crashed", "Done"}
    /\ \A w \in Workers : pc[w] = "done"
    /\ attempt < MaxAttempts
    /\ \E plan \in {create_segment_table(url, progress_file, segments, size, etag)} :
       LET ids == 0..(plan.dic.segments - 1)
       IN  /\ progress' = progress_file
           /\ progress_file' = plan.progress_file
           /\ segement_table' = plan.dic
           /\ pc' = [w \in ids |-> "start"]
           /\ curr' = [w \in ids |-> 0]
           /\ completed' = [w \in ids |-> FALSE]
           /\ downloaded_size' = [w \in ids |-> -1]
           /\ ranges' = [w \in ids |-> <<>>]
           /\ stream' = [w \in ids |-> NoResponse]
           /\ extra' = [w \in ids |-> 0]
           /\ left' = [w \in ids |-> "no"]
    /\ mode' = "ab"
    /\ request' = [url |-> url, etag |-> etag, segments |-> segments]
    /\ interrupt' = FALSE
    /\ status' = "Running"
    /\ attempt' = attempt + 1
    /\ fresh' = (progress_file.kind = "absent" /\ DOMAIN segment_files = {})
    /\ prev' = [status |-> status, url |-> request.url, etag |-> request.etag,
                dic |-> segement_table, files |-> segment_files]
    /\ UNCHANGED <<size, segment_files, dest>>

\* Coordinator: Running -> Aborted, the cancellation signal is set.
Abort ==
    /\ status = "Running"
    /\ interrupt
    /\ status' = "Aborted"
    /\ UNCHANGED <<size, disk, attempt, request, progress, segement_table, mode,
                   interrupt, pc, curr, completed, downloaded_size, ranges,
                   stream, extra, left, fresh, prev>>

\* mutant of EnterCombining: the signal is not looked at
EnterCombining_IgnoreSignal ==
    /\ status = "Running"
    /\ \A w \in Workers : completed[w]
    /\ status' = "Combining"
    /\ UNCHANGED <<size, disk, attempt, request, progress, segement_table, mode,
                   interrupt, pc, curr, completed, downloaded_size, ranges,
                   stream, extra, left, fresh, prev>>

\* Coordinator: Running -> Combining, every worker reports completed.
EnterCombining ==
    /\ status = "Running"
    /\ ~interrupt
    /\ \A w \in Workers : completed[w]
    /\ status' = "Combining"
    /\ UNCHANGED <<size, disk, attempt, request, progress, segement_table, mode,
                   interrupt, pc, curr, completed, downloaded_size, ranges,
                   stream, extra, left, fresh, prev>>

\* Coordinator: Combining -> Done, or the exception of combine_files.
Combine ==
    /\ status = "Combining"
    /\ LET c == combine_files(segment_files, progress_file,
                              segement_table.segments)
       IN  /\ dest' = [exists |-> TRUE, data |-> c.dest]
           /\ segment_files' = c.files
           /\ progress_file' = c.progress_file
           /\ status' = IF c.raised THEN "Crashed" ELSE "Done"
    /\ UNCHANGED <<size, attempt, request, progress, segement_table, mode,
                   interrupt, pc, curr, completed, downloaded_size, ranges,
                   stream, extra, left, fresh, prev>>

\* ---------------------------------------------------------------------------
\* Multidown.worker (utls.py:190-211) over Basicdown.download (utls.py:126-148)

\* mutant of ResumeDetect: curr is set before the size test, not in its else
ResumeDetect_CurrFirst(w) ==
    /\ pc[w] = "start"
    /\ IF w \in DOMAIN segment_files
       THEN LET st_size == FileLen(segment_files[w])
            IN  /\ downloaded_size' = [downloaded_size EXCEPT ![w] = st_size]
                /\ curr' = [curr EXCEPT ![w] = st_size]
                /\ segment_files' =
                       IF st_size > Entry(w).segment_size
                       THEN [i \in DOMAIN segment_files \ {w} |-> segment_files[i]]
                       ELSE segment_files
       ELSE UNCHANGED <<downloaded_size, segment_files, curr>>
    /\ pc' = [pc EXCEPT ![w] = "request"]
    /\ UNCHANGED <<size, progress_file, dest, coordinator, interrupt,
                   completed, ranges, stream, extra, left>>

\* utls.py:191-202: resume detection
ResumeDetect(w) ==
    /\ pc[w] = "start"
    /\ IF w \in DOMAIN segment_files
       THEN LET st_size == FileLen(segment_files[w])
            IN  /\ downloaded_size' = [downloaded_size EXCEPT ![w] = st_size]
                /\ IF st_size > Entry(w).segment_size
                   THEN /\ segment_files' =
                              [i \in DOMAIN segment_files \ {w} |-> segment_files[i]]
                        /\ curr' = curr
                   ELSE /\ segment_files' = segment_files
                        /\ curr' = [curr EXCEPT ![w] = st_size]
       ELSE UNCHANGED <<downloaded_size, segment_files, curr>>
    /\ pc' = [pc EXCEPT ![w] = "request"]
    /\ UNCHANGED <<size, progress_file, dest, coordinator, interrupt,
                   completed, ranges, stream, extra, left>>

\* mutant of IssueRequest: the range starts at the segment's start
IssueRequest_FromStart(w) ==
    /\ pc[w] = "request"
    /\ IF curr[w] < Entry(w).segment_size
       THEN LET start == Entry(w).start
            IN  /\ ranges' = [ranges EXCEPT ![w] = Append(@, <<start, Entry(w).end>>)]
                /\ stream' = [stream EXCEPT ![w] =
                       Response(segement_table.url, start, Entry(w).end, size)]
                /\ segment_files' =
                       [i \in DOMAIN segment_files \cup {w} |->
                           IF i \in DOMAIN segment_files
                           THEN segment_files[i] ELSE <<>>]
                /\ pc' = [pc EXCEPT ![w] = "stream"]
       ELSE /\ pc' = [pc EXCEPT ![w] = "finish"]
            /\ UNCHANGED <<ranges, stream, segment_files>>
    /\ UNCHANGED <<size, progress_file, dest, coordinator, interrupt, curr,
                   completed, downloaded_size, extra, left>>

\* utls.py:204-208 and 131: the range header, open(path, "ab"), requests.get
IssueRequest(w) ==
    /\ pc[w] = "request"
    /\ IF curr[w] < Entry(w).segment_size
       THEN LET start == Entry(w).start + curr[w]
            IN  /\ ranges' = [ranges EXCEPT ![w] = Append(@, <<start, Entry(w).end>>)]
                /\ stream' = [stream EXCEPT ![w] =
                       Response(segement_table.url, start, Entry(w).end, size)]
                /\ segment_files' =
                       [i \in DOMAIN segment_files \cup {w} |->
                           IF i \in DOMAIN segment_files
                           THEN segment_files[i] ELSE <<>>]
                /\ pc' = [pc EXCEPT ![w] = "stream"]
       ELSE /\ pc' = [pc EXCEPT ![w] = "finish"]
            /\ UNCHANGED <<ranges, stream, segment_files>>
    /\ UNCHANGED <<size, progress_file, dest, coordinator, interrupt, curr,
                   completed, downloaded_size, extra, left>>

\* utls.py:133-135: the next chunk of at most MEGABYTE bytes is written to
\* path, the segment file of a Multidown and the destination of a Simpledown
WriteChunk(w, n) ==
    /\ pc[w] = "stream"
    /\ n \in 1..Min(Remaining(stream[w]), MEGABYTE)
    /\ LET chunk == Bytes(stream[w].url, stream[w].next, n)
       IN  IF mode = "ab"
           THEN /\ segment_files' = [segment_files EXCEPT ![w] = Concat(@, chunk)]
                /\ dest' = dest
           ELSE /\ dest' = [dest EXCEPT !.data = Concat(@, chunk)]
                /\ segment_files' = segment_files
    /\ curr' = [curr EXCEPT ![w] = @ + n]
    /\ stream' = [stream EXCEPT ![w].next = @ + n]
    /\ extra' = [extra EXCEPT ![w] = IF interrupt THEN @ + 1 ELSE @]
    /\ pc' = [pc EXCEPT ![w] = "check"]
    /\ UNCHANGED <<size, progress_file, coordinator, interrupt, completed,
                   downloaded_size, ranges, left>>

\* mutant of CheckInterrupt: the worker that sees the signal clears it
CheckInterrupt_Clear(w) ==
    /\ pc[w] = "check"
    /\ pc' = [pc EXCEPT ![w] = IF interrupt THEN "finish" ELSE "stream"]
    /\ left' = [left EXCEPT ![w] = IF interrupt THEN "break" ELSE @]
    /\ interrupt' = FALSE
    /\ UNCHANGED <<size, disk, coordinator, curr, completed,
                   downloaded_size, ranges, stream, extra>>

\* mutant of CheckInterrupt: the loop never breaks
CheckInterrupt_NoBreak(w) ==
    /\ pc[w] = "check"
    /\ pc' = [pc EXCEPT ![w] = "stream"]
    /\ UNCHANGED <<size, disk, coordinator, interrupt, curr, completed,
                   downloaded_size, ranges, stream, extra, left>>

\* utls.py:140-143: the signal is looked at once after every chunk
CheckInterrupt(w) ==
    /\ pc[w] = "check"
    /\ pc' = [pc EXCEPT ![w] = IF interrupt THEN "finish" ELSE "stream"]
    /\ left' = [left EXCEPT ![w] = IF interrupt THEN "break" ELSE @]
    /\ UNCHANGED <<size, disk, coordinator, interrupt, curr, completed,
                   downloaded_size, ranges, stream, extra>>

\* utls.py:133: iter_content is exhausted
StreamEnd(w) ==
    /\ pc[w] = "stream"
    /\ Remaining(stream[w]) = 0
    /\ pc' = [pc EXCEPT ![w] = "finish"]
    /\ left' = [left EXCEPT ![w] = "exhausted"]
    /\ UNCHANGED <<size, disk, coordinator, interrupt, curr, completed,
                   downloaded_size, ranges, stream, extra>>

\* utls.py:145-148: the GET or a read raises
TransportError(w) ==
    /\ pc[w] = "stream"
    /\ interrupt' = TRUE
    /\ pc' = [pc EXCEPT ![w] = "finish"]
    /\ left' = [left EXCEPT ![w] = "error"]
    /\ UNCHANGED <<size, disk, coordinator, curr, completed,
                   downloaded_size, ranges, stream, extra>>

\* utls.py:210-211
MarkCompleted(w) ==
    /\ pc[w] = "finish"
    /\ completed' = [completed EXCEPT ![w] = (curr[w] = Entry(w).segment_size)]
    /\ pc' = [pc EXCEPT ![w] = "done"]
    /\ UNCHANGED <<size, disk, coordinator, interrupt, curr,
                   downloaded_size, ranges, stream, extra, left>>

Next ==
    \/ \E url \in Urls, etag \in Etags, segments \in 1..MaxSegments :
           StartAttempt(url, etag, segments)
    \/ Abort
    \/ EnterCombining
    \/ Combine
    \/ \E w \in Workers : ResumeDetect(w)
    \/ \E w \in Workers : IssueRequest(w)
    \/ \E w \in Workers : \E n \in 1..MaxSize : WriteChunk(w, n)
    \/ \E w \in Workers : CheckInterrupt(w)
    \/ \E w \in Workers : StreamEnd(w)
    \/ \E w \in Workers : TransportError(w)
    \/ \E w \in Workers : MarkCompleted(w)

Spec == Init /\ [][Next]_vars

\* ---------------------------------------------------------------------------
\* Whole-file downloads: Simpledown (utls.py:151-170) over Basicdown.download.

\* Coordinator: Planning is skipped, one Simpledown is made and started.
StartSimple(url) ==
    /\ status \in {"Idle", "Aborted", "Crashed", "Done"}
    /\ \A w \in Workers : pc[w] = "done"
    /\ attempt < MaxAttempts
    /\ pc' = [w \in {0} |-> "start"]
    /\ curr' = [w \in {0} |-> 0]
    /\ completed' = [w \in {0} |-> FALSE]
    /\ downloaded_size' = [w \in {0} |-> -1]
    /\ ranges' = [w \in {0} |-> <<>>]
    /\ stream' = [w \in {0} |-> NoResponse]
    /\ extra' = [w \in {0} |-> 0]
    /\ left' = [w \in {0} |-> "no"]
    /\ mode' = "wb"
    /\ request' = [url |-> url, etag |-> EtagFalse, segments |-> 1]
    /\ segement_table' = NoTable
    /\ interrupt' = FALSE
    /\ status' = "Running"
    /\ attempt' = attempt + 1
    /\ fresh' = (progress_file.kind = "absent" /\ DOMAIN segment_files = {})
    /\ prev' = [status |-> status, url |-> request.url, etag |-> request.etag,
                dic |-> segement_table, files |-> segment_files]
    /\ UNCHANGED <<size, disk, progress>>

\* Coordinator: Running -> Done, the Simpledown reports completed.
FinishSimple ==
    /\ status = "Running"
    /\ mode = "wb"
    /\ ~interrupt
    /\ \A w \in Workers : completed[w]
    /\ status' = "Done"
    /\ UNCHANGED <<size, disk, attempt, request, progress, segement_table, mode,
                   interrupt, pc, curr, completed, downloaded_size, ranges,
                   stream, extra, left, fresh, prev>>

\* utls.py:169 and 131: open(file_path, "wb") and requests.get without a range
SimpleOpen(w) ==
    /\ pc[w] = "start"
    /\ dest' = [exists |-> TRUE, data |-> <<>>]
    /\ stream' = [stream EXCEPT ![w] = Response(request.url, 0, size - 1, size)]
    /\ pc' = [pc EXCEPT ![w] = "stream"]
    /\ UNCHANGED <<size, progress_file, segment_files, coordinator, interrupt,
                   curr, completed, downloaded_size, ranges, extra, left>>

\* utls.py:170
SimpleMarkCompleted(w) ==
    /\ pc[w] = "finish"
    /\ completed' = [completed EXCEPT ![w] = TRUE]
    /\ pc' = [pc EXCEPT ![w] = "done"]
    /\ UNCHANGED <<size, disk, coordinator, interrupt, curr,
                   downloaded_size, ranges, stream, extra, left>>

NextSimple ==
    \/ \E url \in Urls : StartSimple(url)
    \/ Abort
    \/ FinishSimple
    \/ \E w \in Workers : SimpleOpen(w)
    \/ \E w \in Workers : \E n \in 1..MaxSize : WriteChunk(w, n)
    \/ \E w \in Workers : CheckInterrupt(w)
    \/ \E w \in Workers : StreamEnd(w)
    \/ \E w \in Workers : TransportError(w)
    \/ \E w \in Workers : SimpleMarkCompleted(w)

SpecSimple == Init /\ [][NextSimple]_vars

\* ---------------------------------------------------------------------------
\* The planner on its own: create_segment_table applied once to inputs drawn
\* from bounded sets, with the sidecar in any state an earlier run, a torn
\* write or another program can have left it in.
PlanSizes ==
    (1..MaxPlanSize) \cup {100, 10 * MEGABYTE, 50 * MEGABYTE - 1}
        \cup ((50 * MEGABYTE)..(50 * MEGABYTE + MaxPlanDelta))

SidecarCounts == {1, 4, 7}

\* A count above 5 is only ever written for a resource of 50 MB or more.
PlanSidecars(sz) ==
    {Absent, Garbage}
        \cup {Json(u, e, k) : u \in Urls, e \in Etags,
                              k \in {c \in SidecarCounts : c <= 5 \/ sz >= 50 * MEGABYTE}}
        \cup {JsonWithout(key, "u1", "e1", 4) : key \in AllKeys}

InitPlan == \E sz \in PlanSizes : \E sidecar \in PlanSidecars(sz) : InitWith(sz, sidecar)

NextPlan ==
    \E url \in Urls, etag \in Etags, segments \in 1..MaxRequested :
        attempt = 0 /\ StartAttempt(url, etag, segments)

SpecPlan == InitPlan /\ [][NextPlan]_vars

\* ---------------------------------------------------------------------------
\* Attempts on resources of 50 MB and more with MaxRequested segments.  Of the
\* schedules of the thread pool this keeps those in which the workers run one
\* after the other, the last segment first; iter_content delivers full
\* chunks, and at most one request fails per attempt.  Every behaviour is one
\* of the concurrent program on that resource.
SerialSizes == {50 * MEGABYTE, 50 * MEGABYTE + MaxPlanDelta}

Turn(w) == \A v \in Workers : v > w => pc[v] = "done"

InitSerial == \E sz \in SerialSizes : InitWith(sz, Absent)

NextSerial ==
    \/ StartAttempt("u1", "e1", MaxRequested)
    \/ Abort
    \/ EnterCombining
    \/ Combine
    \/ \E w \in Workers : Turn(w) /\ ResumeDetect(w)
    \/ \E w \in Workers : Turn(w) /\ IssueRequest(w)
    \/ \E w \in Workers :
           Turn(w) /\ WriteChunk(w, Min(Remaining(stream[w]), MEGABYTE))
    \/ \E w \in Workers : Turn(w) /\ CheckInterrupt(w)
    \/ \E w \in Workers : Turn(w) /\ StreamEnd(w)
    \/ \E w \in Workers : Turn(w) /\ ~interrupt /\ TransportError(w)
    \/ \E w \in Workers : Turn(w) /\ MarkCompleted(w)

SpecSerial == InitSerial /\ [][NextSerial]_vars

\* ---------------------------------------------------------------------------
\* Properties of the planner (checked under SpecPlan)

Planned == status = "Running"
Segments == segement_table.segments
RECURSIVE SumSizes(_, _)
SumSizes(t, n) == IF n = 0 THEN 0 ELSE SumSizes(t, n - 1) + t.seg[n - 1].segment_size

\* C1: for every totalSize >= 1 and resolved segmentCount >= 1 the table has
\* exactly the entries 0..segmentCount-1, segment 0 starts at 0, adjacent
\* entries are contiguous (end + 1 = next start) and the segment sizes sum to
\* totalSize.
C1_PartitionExact ==
    Planned =>
        /\ DOMAIN segement_table.seg = 0..(Segments - 1)
        /\ segement_table.seg[0].start = 0
        /\ \A i \in 0..(Segments - 2) :
               segement_table.seg[i].end + 1 = segement_table.seg[i + 1].start
        /\ SumSizes(segement_table, Segments) = size

\* what C1 claims, except the sum
C1_Contiguous ==
    Planned =>
        /\ DOMAIN segement_table.seg = 0..(Segments - 1)
        /\ segement_table.seg[0].start = 0
        /\ \A i \in 0..(Segments - 2) :
               segement_table.seg[i].end + 1 = segement_table.seg[i + 1].start

Divides == Planned /\ size % Segments = 0
Quotient == size \div Segments

\* C3 as stated: when segmentCount divides totalSize, every segment i, the
\* last one included, has the range [i*q, (i+1)*q - 1] and size q.
C3_AllRangesInclusive ==
    Divides =>
        \A i \in 0..(Segments - 1) :
            segement_table.seg[i] =
                [start |-> i * Quotient, end |-> (i + 1) * Quotient - 1,
                 segment_size |-> Quotient]

\* C3 amended: when segmentCount divides totalSize, every segment i starts at
\* i*q and has size q; every segment but the last ends at (i+1)*q - 1, and the
\* last one ends at totalSize, one past the offset of the final byte.
C3_LastEndIsTotalSize ==
    Divides =>
        \A i \in 0..(Segments - 1) :
            segement_table.seg[i] =
                [start |-> i * Quotient,
                 end |-> IF i = Segments - 1 THEN size ELSE (i + 1) * Quotient - 1,
                 segment_size |-> Quotient]

\* 100 bytes in 4 segments: [0,24], [25,49], [50,74], [75,100]
C3_Witness ==
    /\ Planned /\ size = 100 /\ Segments = 4
    /\ segement_table.seg[2] = [start |-> 50, end |-> 74, segment_size |-> 25]
    /\ segement_table.seg[3] = [start |-> 75, end |-> 100, segment_size |-> 25]

\* The sidecar read by the planner is a usable prior plan for the request.
Reusable ==
    /\ progress.kind = "json"
    /\ progress.keys = AllKeys
    /\ Truthy(request.etag)
    /\ progress.url = request.url
    /\ progress.etag = request.etag

\* the clamp of the requested count, in bytes
Clamped == IF request.segments > 5 /\ size < 52428800 THEN 5 ELSE request.segments

\* C9: the planner uses the sidecar's count if and only if the sidecar is
\* present and parseable, the request's etag is truthy and the sidecar's url
\* and etag equal the request's; otherwise it uses the clamped requested count.
C9_ReuseIff ==
    Planned => Segments = IF Reusable THEN progress.segments ELSE Clamped

C9_Witness ==
    /\ Planned /\ Reusable
    /\ progress.segments # Clamped
    /\ Segments = progress.segments

\* C10: without a reused plan the resolved count is 5 when more than 5
\* segments are requested for less than 50 MB and the requested count
\* otherwise; the resolved count is written to the sidecar and is the number
\* of entries of the table.
C10_Clamp ==
    Planned =>
        /\ ~Reusable =>
               Segments = IF request.segments > 5 /\ size < 50 * MEGABYTE
                          THEN 5 ELSE request.segments
        /\ progress_file = Json(request.url, request.etag, Segments)
        /\ DOMAIN segement_table.seg = 0..(Segments - 1)

\* 8 segments requested for 10 MB
C10_Witness ==
    /\ Planned /\ ~Reusable
    /\ request.segments = 8 /\ size = 10 * MEGABYTE
    /\ Segments = 5 /\ progress_file.segments = 5

\* C16: when the sidecar is absent, unparseable, lacks a field or has another
\* url or etag, create_segment_table returns (the attempt is planned) the
\* table of the clamped requested count and overwrites the sidecar with the
\* request's url and etag and that count.
C16_FreshPlan ==
    (attempt = 1 /\ ~Reusable) =>
        /\ Planned
        /\ segement_table = SegmentTable(request.url, Clamped, size)
        /\ progress_file = Json(request.url, request.etag, Clamped)

\* the sidecar has the request's url and etag but no "segments" key
C16_Witness ==
    /\ Planned
    /\ progress = JsonWithout("segments", "u1", "e1", 4)
    /\ request = [url |-> "u1", etag |-> "e1", segments |-> 8]
    /\ size = 10 * MEGABYTE
    /\ Segments = 5
    /\ progress_file = Json("u1", "e1", 5)

\* ---------------------------------------------------------------------------
\* Properties of a download attempt (checked under Spec)

SegmentSize(w) == Entry(w).segment_size
\* the segment files are on disk until combine_files has run
BeforeCombine == status \in {"Running", "Aborted", "Combining"}
\* bytes worker w's segment file held when the attempt started
LeftOver(w) == IF w \in DOMAIN prev.files THEN prev.files[w] ELSE <<>>
\* the bytes of a are the first bytes of b
IsPrefix(a, b) ==
    \/ a = <<>>
    \/ /\ Len(a) <= Len(b)
       /\ SubSeq(a, 1, Len(a) - 1) = SubSeq(b, 1, Len(a) - 1)
       /\ a[Len(a)][1] = b[Len(a)][1]
       /\ a[Len(a)][3] = b[Len(a)][3]
       /\ a[Len(a)][2] <= b[Len(a)][2]

\* C2: in a fresh attempt in which every segment worker completes, the file
\* combine_files produces is the resource, byte for byte.
C2_FreshCombineIdentical ==
    (fresh /\ status \in {"Done", "Crashed"}) =>
        /\ status = "Done"
        /\ dest = [exists |-> TRUE, data |-> Resource(request.url, size)]

\* what holds of C2: when combine_files returns, the destination is the
\* resource
C2_DoneIdentical ==
    (fresh /\ status = "Done") => dest = [exists |-> TRUE, data |-> Resource(request.url, size)]

\* The attempt follows an aborted one and has the same url and etag.
ResumesAborted ==
    /\ attempt > 1
    /\ prev.status = "Aborted"
    /\ request.url = prev.url
    /\ request.etag = prev.etag

\* The table is the aborted attempt's and every worker continues its file.
SamePlanContinued ==
    /\ segement_table = prev.dic
    /\ \A w \in Workers :
           /\ pc[w] = "request" => curr[w] = FileLen(LeftOver(w))
           /\ (pc[w] # "start" /\ BeforeCombine /\ w \in DOMAIN prev.files) =>
                  w \in DOMAIN segment_files /\ IsPrefix(LeftOver(w), segment_files[w])
           /\ \A i \in 1..Len(ranges[w]) :
                  ranges[w][i] = <<Entry(w).start + FileLen(LeftOver(w)), Entry(w).end>>

\* C4: an attempt after an aborted one with identical url and etag uses the
\* same table, and every worker starts with bytesDownloaded equal to the
\* length its segment file had when the aborted attempt ended and requests
\* only the rest.  (Checked under SpecSerial: the last segment of a table
\* whose sizes sum to size - 1 receives segment_size + 1 bytes.)
C4_ResumeSameUrlEtag == ResumesAborted => SamePlanContinued

\* C5: once the cancellation signal is set, a worker writes at most one
\* further chunk, and after that chunk it reads no more.
C5_OneMoreChunk ==
    \A w \in Workers :
        /\ extra[w] <= 1
        /\ extra[w] = 1 => pc[w] \in {"check", "finish", "done"}
        /\ (pc[w] = "done" /\ extra[w] = 1) => interrupt

\* a worker wrote a chunk after another worker set the signal, and returned
C5_Witness ==
    \E w \in Workers :
        /\ extra[w] = 1 /\ pc[w] = "done"
        /\ curr[w] < SegmentSize(w)

\* C6: the combiner runs only when every worker reports completed; with the
\* cancellation signal set the attempt is Running or Aborted, never Combining.
C6_CombineOnlyCompleted ==
    /\ status \in {"Combining", "Done", "Crashed"} =>
           (\A w \in Workers : completed[w]) /\ ~interrupt
    /\ interrupt => status \in {"Running", "Aborted"}

\* every worker completed, but the signal was set: Aborted
C6_Witness ==
    /\ status = "Aborted" /\ interrupt
    /\ Workers # {}
    /\ \A w \in Workers : completed[w]

\* Resume detection found a file of k bytes, k < segment_size.
Partial(w) ==
    /\ pc[w] # "start"
    /\ downloaded_size[w] >= 0
    /\ downloaded_size[w] < SegmentSize(w)

\* C7: a segment file of k < size bytes makes the worker start with
\* bytesDownloaded = k, keep the k bytes, and issue one GET for start+k .. end.
C7_ResumePartial ==
    \A w \in Workers :
        Partial(w) =>
            /\ downloaded_size[w] = FileLen(LeftOver(w))
            /\ pc[w] = "request" => curr[w] = downloaded_size[w] /\ ranges[w] = <<>>
            /\ pc[w] # "request" =>
                   ranges[w] = << <<Entry(w).start + downloaded_size[w], Entry(w).end>> >>
            /\ curr[w] >= downloaded_size[w]
            /\ BeforeCombine =>
                   /\ w \in DOMAIN segment_files
                   /\ IsPrefix(LeftOver(w), segment_files[w])
                   /\ FileLen(segment_files[w]) = curr[w]

C7_Witness ==
    \E w \in Workers :
        /\ Partial(w) /\ downloaded_size[w] = 1
        /\ pc[w] = "done" /\ completed[w]
        /\ ranges[w] = << <<Entry(w).start + 1, Entry(w).end>> >>

\* Resume detection found a file larger than the segment.
Oversized(w) == pc[w] # "start" /\ downloaded_size[w] > SegmentSize(w)

\* after the detection: nothing on disk, curr = 0, and the one GET, if the
\* segment is not empty, asks for start .. end
C8_OversizedState ==
    \A w \in Workers :
        Oversized(w) =>
            /\ pc[w] = "request" =>
                   curr[w] = 0 /\ w \notin DOMAIN segment_files /\ ranges[w] = <<>>
            /\ (pc[w] # "request" /\ SegmentSize(w) > 0) =>
                   ranges[w] = << <<Entry(w).start, Entry(w).end>> >>
            /\ (pc[w] # "request" /\ SegmentSize(w) = 0) =>
                   ranges[w] = <<>> /\ curr[w] = 0
            /\ (BeforeCombine /\ w \in DOMAIN segment_files) =>
                   segment_files[w] =
                       Bytes(segement_table.url, Entry(w).start, curr[w])

\* the detection step itself
C8_DetectionStep ==
    \A w \in Workers :
        (/\ w \in DOMAIN pc' /\ pc[w] = "start" /\ pc'[w] = "request"
         /\ w \in DOMAIN segment_files
         /\ FileLen(segment_files[w]) > SegmentSize(w)) =>
            /\ interrupt' = interrupt
            /\ curr'[w] = 0
            /\ w \notin DOMAIN segment_files'

\* C8: a segment file larger than the planned size is deleted, bytesDownloaded
\* stays 0 and the segment is downloaded from its planned start; detecting it
\* does not set the cancellation signal.
C8_OversizedRestart == []C8_OversizedState /\ [][C8_DetectionStep]_vars

C8_Witness ==
    \E w \in Workers :
        /\ Oversized(w) /\ SegmentSize(w) > 0
        /\ pc[w] = "done" /\ completed[w] /\ ~interrupt
        /\ ranges[w] = << <<Entry(w).start, Entry(w).end>> >>

\* ---------------------------------------------------------------------------
\* How a worker returns

Returned(w) == pc[w] = "done"
\* download was not called, or its loop ran until the stream was exhausted
ExitedNormally(w) == left[w] \in {"no", "exhausted"}

\* C11: a segment worker returns with completed = TRUE if and only if
\* curr = segment_size and its loop was not left by the break; a worker that
\* broke out on the signal returns with completed = FALSE even if its last
\* chunk brought curr up to segment_size.  (Workers whose download raised are
\* the subject of C14.)
C11_CompletedIffNormalExit ==
    \A w \in Workers :
        (Returned(w) /\ left[w] # "error") =>
            (completed[w] <=> (curr[w] = SegmentSize(w) /\ ExitedNormally(w)))

\* C14: a segment worker whose download raised, before the first chunk,
\* between chunks or after the last one, has set the signal, issues no
\* further GET, returns with completed = FALSE and leaves the bytes it wrote
\* in its segment file.
C14_ErrorAborts ==
    \A w \in Workers :
        (mode = "ab" /\ left[w] = "error") =>
            /\ interrupt
            /\ Len(ranges[w]) = 1
            /\ Returned(w) => ~completed[w]
            /\ BeforeCombine =>
                   /\ w \in DOMAIN segment_files
                   /\ FileLen(segment_files[w]) = curr[w]

\* C15: within one attempt the signal, once set, stays set: no step of a
\* worker, of the planner or of combine_files clears it.
C15_SignalMonotonic == [][(interrupt /\ attempt' = attempt) => interrupt']_vars

\* the signal was set by one worker, seen by another, and the attempt aborted
C15_Witness ==
    /\ interrupt /\ status = "Aborted"
    /\ \A w \in Workers : Returned(w)
    /\ \E w \in Workers : left[w] = "error"
    /\ \E w \in Workers : left[w] = "break"

\* ---------------------------------------------------------------------------
\* What an attempt leaves on disk

\* combine_files returned: no segment file of the table and no sidecar
DoneClean ==
    (status = "Done" /\ mode = "ab") =>
        /\ progress_file = Absent
        /\ \A i \in 0..(Segments - 1) : i \notin DOMAIN segment_files

\* Aborted: the sidecar is the one the planner wrote, and every worker that
\* is past resume detection has on disk all the bytes it counts
AbortedKept ==
    (status = "Aborted" /\ mode = "ab") =>
        /\ progress_file = Json(request.url, request.etag, Segments)
        /\ \A w \in Workers :
               (pc[w] # "start" /\ curr[w] > 0) =>
                   /\ w \in DOMAIN segment_files
                   /\ FileLen(segment_files[w]) = curr[w]

\* in an aborted attempt no step removes the sidecar or a file a worker has
\* taken over, or changes a byte already written
AbortedFrame ==
    (status' = "Aborted" /\ mode = "ab" /\ attempt' = attempt) =>
        /\ progress_file' = progress_file
        /\ \A i \in DOMAIN segment_files :
               (i \in Workers => pc[i] # "start") =>
                   /\ i \in DOMAIN segment_files'
                   /\ IsPrefix(segment_files[i], segment_files'[i])

\* C12: after Done no segment file 0..segmentCount-1 and no sidecar remains;
\* after Aborted the sidecar and every segment file written so far are still
\* on disk with their contents unchanged.
C12_DiskAtEnd == [](DoneClean /\ AbortedKept) /\ [][AbortedFrame]_vars

\* an aborted attempt whose workers have returned, one with a partial file
\* and one with a complete file
C12_Witness ==
    /\ status = "Aborted" /\ mode = "ab"
    /\ \A w \in Workers : Returned(w)
    /\ \E w \in Workers : curr[w] > 0 /\ curr[w] < SegmentSize(w)
    /\ \E w \in Workers : curr[w] > 0 /\ curr[w] = SegmentSize(w)

\* ---------------------------------------------------------------------------
\* Whole-file downloads (checked under SpecSimple)

\* C13: a Simpledown returns with completed = TRUE only if its stream was
\* exhausted, without the break on the signal and without a caught exception.
C13_SimpleCompletedOnlyExhausted ==
    \A w \in Workers :
        (mode = "wb" /\ Returned(w) /\ completed[w]) => left[w] = "exhausted"

\* ---------------------------------------------------------------------------
\* Attempts that find the files of an earlier attempt

\* Resume detection accepted worker w's segment file as a valid partial.
Accepted(w) ==
    /\ pc[w] # "start"
    /\ downloaded_size[w] >= 0
    /\ downloaded_size[w] <= SegmentSize(w)

\* C18: for any sequence of attempts on one destination path, an attempt that
\* ends Done has combined the resource byte for byte, also after an aborted
\* attempt under another plan; and a segment file accepted as a valid partial
\* holds exactly the first bytes of the current plan's segment.
C18_StalePlanResume ==
    /\ (status = "Done" /\ mode = "ab") =>
           dest = [exists |-> TRUE, data |-> Resource(request.url, size)]
    /\ \A w \in Workers :
           (mode = "ab" /\ Accepted(w)) =>
               LeftOver(w) =
                   Bytes(segement_table.url, Entry(w).start, downloaded_size[w])

\* C19: whenever every segment worker reports completed = TRUE, each segment
\* file 0..segmentCount-1 is on disk with exactly segment_size bytes, segments
\* of size 0 included, and combine_files opens and merges all of them.
C19_CompletedFilesOnDisk ==
    /\ (/\ mode = "ab" /\ BeforeCombine
        /\ \A w \in Workers : Returned(w) /\ completed[w]) =>
           \A i \in 0..(Segments - 1) :
               /\ i \in DOMAIN segment_files
               /\ FileLen(segment_files[i]) = SegmentSize(i)
    /\ status # "Crashed"

\* ---------------------------------------------------------------------------
\* Attempts on resources of 50 MB and more (checked under SpecSerial)

\* C17: every attempt leaves Running and ends Done or Aborted; stated for the
\* finite run: once every worker has returned, every worker is completed or
\* the signal is set, so that the coordinator can leave Running.
C17_ExitConditionMet ==
    (status = "Running" /\ \A w \in Workers : Returned(w)) =>
        \/ \A w \in Workers : completed[w]
        \/ interrupt

\* C20: at every chunk boundary of a segment worker, from resume detection
\* until it returns, curr is the length of its segment file (0 if there is
\* none) and is at most segment_size; the transport delivers only bytes of
\* the requested range.
C20_ProgressInvariant ==
    \A w \in Workers :
        (mode = "ab" /\ pc[w] # "start" /\ BeforeCombine) =>
            /\ curr[w] = IF w \in DOMAIN segment_files
                         THEN FileLen(segment_files[w]) ELSE 0
            /\ curr[w] <= SegmentSize(w)

====
